---- MODULE Spec2Model ----
(***************************************************************************)
(* The persisted channel revocation log of lnd (channeldb): the tlv based  *)
(* codec of RevocationLog / HTLCEntry and the dual bucket reader / writer. *)
(*                                                                         *)
(* Bytes are naturals 0..255 and a byte string is a sequence of bytes.  A  *)
(* reader is the sequence of the bytes that remain to be read.  A uint64   *)
(* is its 8 byte big-endian string and a uint32 its 4 byte string (TLC's   *)
(* integers are 32 bit signed); a uint16 is an integer.                    *)
(***************************************************************************)
EXTENDS Integers, Sequences, FiniteSets, TLC

\* ------------------------------------------------------------------------
\* Bounds of the model.

\* Commit heights run over 1..MaxHeight.
MaxHeight == 2

\* HTLC lists hold at most MaxHtlcs entries.
MaxHtlcs == 2

\* ------------------------------------------------------------------------
\* Program constants.

\* math.MaxUint16, the largest output index that can be stored.
MaxUint16 == 65535

\* The tlv types of the revocation log header.
revLogOurOutputIndexType == 0
revLogTheirOutputIndexType == 1
revLogCommitTxHashType == 2
revLogOurBalanceType == 3
revLogTheirBalanceType == 4

\* The tlv types of an HTLCEntry (tlv.TlvType0 .. tlv.TlvType4).
RHashType == 0
RefundTimeoutType == 1
OutputIndexType == 2
IncomingType == 3
AmtType == 4

\* The length of a payment hash and of the commitment transaction hash.
HashSize == 32

\* ------------------------------------------------------------------------
\* Byte strings and readers.

Byte == 0..255

Rep(b, n) == [i \in 1..n |-> b]

Min(a, b) == IF a < b THEN a ELSE b

Take(s, n) == SubSeq(s, 1, Min(n, Len(s)))

Drop(s, n) == SubSeq(s, Min(n, Len(s)) + 1, Len(s))

ZeroHash == Rep(0, HashSize)

\* A length no byte string of the model reaches.
HugeLen == 2^30

\* uint64 / uint32 of a small natural (n < 2^31), big-endian.
IntToU64(n) ==
    <<0, 0, 0, 0, (n \div 16777216) % 256, (n \div 65536) % 256,
      (n \div 256) % 256, n % 256>>

IntToU32(n) ==
    <<(n \div 16777216) % 256, (n \div 65536) % 256, (n \div 256) % 256,
      n % 256>>

IntToU16Bytes(n) == <<(n \div 256) % 256, n % 256>>

U16BytesToInt(b) == b[1] * 256 + b[2]

\* The value of a uint64 as an integer, HugeLen when it is 2^30 or more.
U64ToInt(u) ==
    IF u[1] = 0 /\ u[2] = 0 /\ u[3] = 0 /\ u[4] = 0 /\ u[5] < 64
    THEN u[5] * 16777216 + u[6] * 65536 + u[7] * 256 + u[8]
    ELSE HugeLen

\* int64(u) as a byte count for io.LimitReader / io.CopyN: a count with the
\* top bit set is negative, and a negative count reads nothing.
Int64Count(u) == IF u[1] >= 128 THEN 0 ELSE U64ToInt(u)

\* io.ReadFull(r, buf[:n]): exactly n bytes, io.EOF when none is left,
\* io.ErrUnexpectedEOF when some but fewer than n are left.
ReadFull(r, n) ==
    IF n = 0 THEN [err |-> "nil", val |-> <<>>, rest |-> r]
    ELSE IF Len(r) = 0 THEN [err |-> "EOF", val |-> <<>>, rest |-> r]
    ELSE IF Len(r) < n
    THEN [err |-> "ErrUnexpectedEOF", val |-> <<>>, rest |-> <<>>]
    ELSE [err |-> "nil", val |-> Take(r, n), rest |-> Drop(r, n)]

\* ------------------------------------------------------------------------
\* tlv: BigSize variable length integers.

\* tlv.VarIntSize
VarIntSize(u) ==
    IF u[1] = 0 /\ u[2] = 0 /\ u[3] = 0 /\ u[4] = 0
    THEN IF u[5] = 0 /\ u[6] = 0
         THEN IF u[7] = 0 /\ u[8] < 253 THEN 1 ELSE 3
         ELSE 5
    ELSE 9

\* tlv.WriteVarInt
WriteVarInt(u) ==
    CASE VarIntSize(u) = 1 -> <<u[8]>>
      [] VarIntSize(u) = 3 -> <<253, u[7], u[8]>>
      [] VarIntSize(u) = 5 -> <<254, u[5], u[6], u[7], u[8]>>
      [] OTHER -> <<255>> \o u

\* The n byte tail of a varint, t the result of reading it after the
\* discriminant: an io.EOF becomes io.ErrUnexpectedEOF, and a value that
\* fits a shorter encoding is not canonical.
ReadVarIntTail(t, n) ==
    IF t.err = "EOF"
    THEN [err |-> "ErrUnexpectedEOF", val |-> Rep(0, 8), rest |-> <<>>]
    ELSE IF t.err # "nil"
    THEN [err |-> t.err, val |-> Rep(0, 8), rest |-> <<>>]
    ELSE IF VarIntSize(Rep(0, 8 - n) \o t.val) < n + 1
    THEN [err |-> "ErrVarIntNotCanonical", val |-> Rep(0, 8),
          rest |-> t.rest]
    ELSE [err |-> "nil", val |-> Rep(0, 8 - n) \o t.val, rest |-> t.rest]

\* The number of bytes that follow the discriminant b of a varint.
VarIntTailLen(b) == IF b = 253 THEN 2 ELSE IF b = 254 THEN 4 ELSE 8

\* tlv.ReadVarInt after its first byte was read, d the result of that read.
ReadVarIntFrom(d) ==
    IF d.err # "nil" THEN [err |-> d.err, val |-> Rep(0, 8), rest |-> d.rest]
    ELSE IF d.val[1] < 253
    THEN [err |-> "nil", val |-> Rep(0, 7) \o d.val, rest |-> d.rest]
    ELSE ReadVarIntTail(ReadFull(d.rest, VarIntTailLen(d.val[1])),
                        VarIntTailLen(d.val[1]))

\* tlv.ReadVarInt: io.EOF only when no byte at all is left.
ReadVarInt(r) == ReadVarIntFrom(ReadFull(r, 1))

\* ------------------------------------------------------------------------
\* The sparse payment hash codec.

\* SparsePayHash.hashLen: the encoded size of a payment hash.
hashLen(h) == IF h = ZeroHash THEN 0 ELSE HashSize

\* A sparse hash encoder that writes the empty hash too.
sparseHashEncoderFull(h) == h

\* sparseHashEncoder: nothing for the empty hash, the 32 bytes otherwise
\* (tlv.EBytes32).
sparseHashEncoder(h) == IF h = ZeroHash THEN <<>> ELSE h

\* tlv.DBytes32(r, val, buf, l): 32 bytes when l is 32, a decoding type error
\* for any other l.
DBytes32(r, cur, l) ==
    IF l = HashSize
    THEN [ReadFull(r, HashSize) EXCEPT
             !.val = IF Len(r) >= HashSize THEN @ ELSE cur]
    ELSE [err |-> "ErrTypeForDecoding", val |-> cur, rest |-> r]

\* sparseHashDecoder(r, val, buf, l): l is the declared length of the field,
\* cur the hash held before the call.  A declared length of 0 reads nothing;
\* every other declared length reads through tlv.DBytes32 with the length
\* argument 32.
sparseHashDecoder(r, cur, l) ==
    IF l = Rep(0, 8)
    THEN [err |-> "nil", val |-> cur, rest |-> r]
    ELSE DBytes32(r, cur, HashSize)

\* ------------------------------------------------------------------------
\* tlv: records and streams.  A stream is a sequence of records
\* [typ, kind] in ascending order of typ; its values are a function from
\* the types to the values.

\* The zero value a decode target starts with.
ZeroVal(kind) ==
    CASE kind = "u16" -> 0
      [] kind = "u32" -> Rep(0, 4)
      [] kind = "bool" -> FALSE
      [] kind = "bigsize" -> Rep(0, 8)
      [] OTHER -> ZeroHash

\* Record.Size
RecordSize(kind, v) ==
    CASE kind = "u16" -> 2
      [] kind = "u32" -> 4
      [] kind = "bool" -> 1
      [] kind = "b32" -> HashSize
      [] kind = "bigsize" -> VarIntSize(v)
      [] OTHER -> hashLen(v)

\* The encoders: tlv.EUint16, EUint32, EBool, EBytes32, EBigSize and
\* sparseHashEncoder.
RecordEncode(kind, v) ==
    CASE kind = "u16" -> IntToU16Bytes(v)
      [] kind = "u32" -> v
      [] kind = "bool" -> IF v THEN <<1>> ELSE <<0>>
      [] kind = "b32" -> v
      [] kind = "bigsize" -> WriteVarInt(v)
      [] OTHER -> sparseHashEncoder(v)

\* The bytes a decoder reads: a varint for tlv.DBigSize, whatever the
\* declared length is; for the other decoders their fixed size when the
\* declared length has that size, and a decoding type error otherwise.  The
\* sparse hash decoder is sparseHashDecoder.
RecordBytes(kind, r, cur, l) ==
    IF kind = "bigsize" THEN ReadVarInt(r)
    ELSE IF kind = "sparsehash" THEN sparseHashDecoder(r, cur, l)
    ELSE IF kind = "b32" THEN DBytes32(r, cur, U64ToInt(l))
    ELSE IF U64ToInt(l) = RecordSize(kind, cur) THEN ReadFull(r, U64ToInt(l))
    ELSE [err |-> "ErrTypeForDecoding", val |-> cur, rest |-> r]

\* The value of the bytes d a decoder read, cur when the read failed:
\* tlv.DUint16, DUint32, DBool (the bytes 0 and 1 only), DBytes32, DBigSize.
RecordValue(kind, d, cur) ==
    IF d.err # "nil" THEN [err |-> d.err, val |-> cur, rest |-> d.rest]
    ELSE IF kind = "u16" THEN [d EXCEPT !.val = U16BytesToInt(@)]
    ELSE IF kind = "bool"
    THEN IF d.val[1] > 1
         THEN [err |-> "ErrCorruptedData", val |-> cur, rest |-> d.rest]
         ELSE [d EXCEPT !.val = (@[1] = 1)]
    ELSE d

RecordDecode(kind, r, cur, l) ==
    RecordValue(kind, RecordBytes(kind, r, cur, l), cur)

\* Stream.Encode: for every record its type, its size and its value.
RECURSIVE StreamEncode(_, _)
StreamEncode(recs, vals) ==
    IF recs = <<>> THEN <<>>
    ELSE LET rec == Head(recs)
             v == vals[rec.typ]
         IN  WriteVarInt(IntToU64(rec.typ))
                 \o WriteVarInt(IntToU64(RecordSize(rec.kind, v)))
                 \o RecordEncode(rec.kind, v)
                 \o StreamEncode(Tail(recs), vals)

StreamTypes(recs) == {recs[i].typ : i \in 1..Len(recs)}

StreamKind(recs, typ) ==
    LET i == CHOOSE j \in 1..Len(recs) : recs[j].typ = typ IN recs[i].kind

StreamZero(recs) == [t \in StreamTypes(recs) |-> ZeroVal(StreamKind(recs, t))]

DecodeFail(e) == [err |-> e, vals |-> <<>>, parsed |-> {}, rest |-> <<>>]

\* Stream.DecodeWithParsedTypes, the loop of Stream.decode: r is what is
\* left of the reader, min the lowest type accepted next, vals the decode
\* targets, parsed the known types decoded so far.  The loop ends without
\* error when no byte is left where a type is expected; an io.EOF anywhere
\* else becomes io.ErrUnexpectedEOF.  A type the stream does not know is
\* skipped by its declared length (io.CopyN).
\* t is the type read, l the length read, d the value decoded.
RECURSIVE StreamDecodeLoop(_, _, _, _, _)
RECURSIVE StreamDecodeLength(_, _, _, _, _)
RECURSIVE StreamDecodeValue(_, _, _, _, _)

StreamDecodeType(recs, t, min, vals, parsed) ==
    IF t.err = "EOF"
    THEN [err |-> "nil", vals |-> vals, parsed |-> parsed, rest |-> <<>>]
    ELSE IF t.err # "nil" THEN DecodeFail(t.err)
    ELSE IF U64ToInt(t.val) < min THEN DecodeFail("ErrStreamNotCanonical")
    ELSE StreamDecodeLength(recs, U64ToInt(t.val), ReadVarInt(t.rest), vals,
                            parsed)

StreamDecodeLength(recs, typ, l, vals, parsed) ==
    IF l.err = "EOF" THEN DecodeFail("ErrUnexpectedEOF")
    ELSE IF l.err # "nil" THEN DecodeFail(l.err)
    ELSE IF typ \in StreamTypes(recs)
    THEN StreamDecodeValue(recs, typ,
                           RecordDecode(StreamKind(recs, typ), l.rest,
                                        vals[typ], l.val),
                           vals, parsed)
    ELSE IF Len(l.rest) < Int64Count(l.val)
    THEN DecodeFail("ErrUnexpectedEOF")
    ELSE StreamDecodeLoop(recs, Drop(l.rest, Int64Count(l.val)), typ + 1,
                          vals, parsed)

StreamDecodeValue(recs, typ, d, vals, parsed) ==
    IF d.err = "EOF" THEN DecodeFail("ErrUnexpectedEOF")
    ELSE IF d.err # "nil" THEN DecodeFail(d.err)
    ELSE StreamDecodeLoop(recs, d.rest, typ + 1,
                          [vals EXCEPT ![typ] = d.val], parsed \cup {typ})

StreamDecodeLoop(recs, r, min, vals, parsed) ==
    StreamDecodeType(recs, ReadVarInt(r), min, vals, parsed)

StreamDecode(recs, r) == StreamDecodeLoop(recs, r, 0, StreamZero(recs), {})

\* ------------------------------------------------------------------------
\* HTLCEntry and RevocationLog.  An optional balance is <<>> when nil and
\* <<v>> when it points to v.

\* HTLCEntry.toTlvStream: the five records of an entry.
toTlvStream ==
    << [typ |-> RHashType, kind |-> "sparsehash"],
       [typ |-> RefundTimeoutType, kind |-> "u32"],
       [typ |-> OutputIndexType, kind |-> "u16"],
       [typ |-> IncomingType, kind |-> "bool"],
       [typ |-> AmtType, kind |-> "bigsize"] >>

\* The values the records of an entry point to.
EntryVals(h) ==
    [t \in StreamTypes(toTlvStream) |->
        CASE t = RHashType -> h.RHash
          [] t = RefundTimeoutType -> h.RefundTimeout
          [] t = OutputIndexType -> h.OutputIndex
          [] t = IncomingType -> h.Incoming
          [] OTHER -> h.Amt]

ValsEntry(v) ==
    [RHash |-> v[RHashType], RefundTimeout |-> v[RefundTimeoutType],
     OutputIndex |-> v[OutputIndexType], Incoming |-> v[IncomingType],
     Amt |-> v[AmtType]]

\* NewHTLCEntryFromHTLC: the output index is converted with uint16(...) and
\* the amount to satoshis.
NewHTLCEntryFromHTLC(htlc) ==
    [RHash |-> htlc.RHash, RefundTimeout |-> htlc.RefundTimeout,
     OutputIndex |-> htlc.OutputIndex % 65536, Incoming |-> htlc.Incoming,
     Amt |-> IntToU64(htlc.Amt \div 1000)]

\* The zero RevocationLog.
EmptyRevocationLog ==
    [OurOutputIndex |-> 0, TheirOutputIndex |-> 0, CommitTxHash |-> ZeroHash,
     HTLCEntries |-> <<>>, OurBalance |-> <<>>, TheirBalance |-> <<>>]

\* writeTlvStream: the length of the encoded stream as a varint, then the
\* encoded stream.
writeTlvStream(recs, vals) ==
    LET b == StreamEncode(recs, vals) IN WriteVarInt(IntToU64(Len(b))) \o b

\* readTlvStream: the length, then the stream decoded from
\* io.LimitReader(r, int64(bodyLen)).  rest is what is left of r.
readTlvBody(n, recs) ==
    IF n.err = "EOF"
    THEN [err |-> "ErrUnexpectedEOF", vals |-> <<>>, parsed |-> {},
          rest |-> <<>>]
    ELSE IF n.err # "nil"
    THEN [err |-> n.err, vals |-> <<>>, parsed |-> {}, rest |-> n.rest]
    ELSE [StreamDecode(recs, Take(n.rest, Int64Count(n.val))) EXCEPT
             !.rest = Drop(n.rest, Int64Count(n.val))]

readTlvStream(r, recs) == readTlvBody(ReadVarInt(r), recs)

\* The records of the header that serializeRevocationLog writes: the three
\* mandatory ones, then a balance record for each balance that is not nil.
HeaderRecordsOf(rl) ==
    << [typ |-> revLogOurOutputIndexType, kind |-> "u16"],
       [typ |-> revLogTheirOutputIndexType, kind |-> "u16"],
       [typ |-> revLogCommitTxHashType, kind |-> "b32"] >>
    \o (IF rl.OurBalance # <<>>
        THEN << [typ |-> revLogOurBalanceType, kind |-> "bigsize"] >>
        ELSE <<>>)
    \o (IF rl.TheirBalance # <<>>
        THEN << [typ |-> revLogTheirBalanceType, kind |-> "bigsize"] >>
        ELSE <<>>)

\* The records of the header that deserializeRevocationLog reads.
HeaderRecords ==
    << [typ |-> revLogOurOutputIndexType, kind |-> "u16"],
       [typ |-> revLogTheirOutputIndexType, kind |-> "u16"],
       [typ |-> revLogCommitTxHashType, kind |-> "b32"],
       [typ |-> revLogOurBalanceType, kind |-> "bigsize"],
       [typ |-> revLogTheirBalanceType, kind |-> "bigsize"] >>

HeaderVals(rl) ==
    [t \in StreamTypes(HeaderRecords) |->
        CASE t = revLogOurOutputIndexType -> rl.OurOutputIndex
          [] t = revLogTheirOutputIndexType -> rl.TheirOutputIndex
          [] t = revLogCommitTxHashType -> rl.CommitTxHash
          [] t = revLogOurBalanceType ->
                IF rl.OurBalance # <<>> THEN rl.OurBalance[1] ELSE Rep(0, 8)
          [] OTHER ->
                IF rl.TheirBalance # <<>> THEN rl.TheirBalance[1]
                ELSE Rep(0, 8)]

\* serializeHTLCEntries: the entries back to back, each one framed.
RECURSIVE serializeHTLCEntries(_)
serializeHTLCEntries(htlcs) ==
    IF htlcs = <<>> THEN <<>>
    ELSE writeTlvStream(toTlvStream, EntryVals(Head(htlcs)))
             \o serializeHTLCEntries(Tail(htlcs))

\* serializeRevocationLog: the framed header, then the entries.
serializeRevocationLog(rl) ==
    writeTlvStream(HeaderRecordsOf(rl), HeaderVals(rl))
        \o serializeHTLCEntries(rl.HTLCEntries)

\* deserializeHTLCEntries: entries are read until readTlvStream fails; the
\* error io.ErrUnexpectedEOF ends the list, any other error is returned.
\* d is what readTlvStream returned for the next entry.
RECURSIVE HTLCEntriesLoop(_, _)

HTLCEntriesNext(d, htlcs) ==
    IF d.err = "ErrUnexpectedEOF" THEN [err |-> "nil", htlcs |-> htlcs]
    ELSE IF d.err # "nil" THEN [err |-> d.err, htlcs |-> <<>>]
    ELSE HTLCEntriesLoop(d.rest, Append(htlcs, ValsEntry(d.vals)))

HTLCEntriesLoop(r, htlcs) ==
    HTLCEntriesNext(readTlvStream(r, toTlvStream), htlcs)

\* An entry decoder that stops after the first entry.
deserializeHTLCEntriesFirst(r) ==
    LET d == readTlvStream(r, toTlvStream) IN
    IF d.err = "ErrUnexpectedEOF" THEN [err |-> "nil", htlcs |-> <<>>]
    ELSE IF d.err # "nil" THEN [err |-> d.err, htlcs |-> <<>>]
    ELSE [err |-> "nil", htlcs |-> <<ValsEntry(d.vals)>>]

deserializeHTLCEntries(r) == HTLCEntriesLoop(r, <<>>)

\* A log decoder that takes a balance of zero for a balance that is not set.
deserializeRevocationLogByValue(r) ==
    LET d == readTlvStream(r, HeaderRecords) IN
    IF d.err # "nil" THEN [err |-> d.err, rl |-> EmptyRevocationLog]
    ELSE LET e == deserializeHTLCEntries(d.rest) IN
         [err |-> e.err,
          rl |-> [OurOutputIndex |-> d.vals[revLogOurOutputIndexType],
                  TheirOutputIndex |-> d.vals[revLogTheirOutputIndexType],
                  CommitTxHash |-> d.vals[revLogCommitTxHashType],
                  HTLCEntries |-> e.htlcs,
                  OurBalance |->
                      IF d.vals[revLogOurBalanceType] # Rep(0, 8)
                      THEN <<d.vals[revLogOurBalanceType]>> ELSE <<>>,
                  TheirBalance |->
                      IF d.vals[revLogTheirBalanceType] # Rep(0, 8)
                      THEN <<d.vals[revLogTheirBalanceType]>> ELSE <<>>]]

\* The RevocationLog of a decoded header d and decoded entries e: a balance
\* is set when its type is among the parsed types of the header.
RevocationLogOf(d, e) ==
    [err |-> e.err,
     rl |-> [OurOutputIndex |-> d.vals[revLogOurOutputIndexType],
             TheirOutputIndex |-> d.vals[revLogTheirOutputIndexType],
             CommitTxHash |-> d.vals[revLogCommitTxHashType],
             HTLCEntries |-> e.htlcs,
             OurBalance |->
                 IF revLogOurBalanceType \in d.parsed
                 THEN <<d.vals[revLogOurBalanceType]>> ELSE <<>>,
             TheirBalance |->
                 IF revLogTheirBalanceType \in d.parsed
                 THEN <<d.vals[revLogTheirBalanceType]>> ELSE <<>>]]

\* The entries are read after a header d that decoded.
RevocationLogAfterHeader(d) ==
    IF d.err # "nil" THEN [err |-> d.err, rl |-> EmptyRevocationLog]
    ELSE RevocationLogOf(d, deserializeHTLCEntries(d.rest))

\* deserializeRevocationLog: the header, then the entries.
deserializeRevocationLog(r) ==
    RevocationLogAfterHeader(readTlvStream(r, HeaderRecords))

\* ------------------------------------------------------------------------
\* The buckets.  A nested bucket is [exists, kv]: kv maps keys to values and
\* is empty when the bucket does not exist.  The channel bucket is
\* [cur, old], the nested buckets named revocationLogBucket and
\* revocationLogBucketDeprecated.

EmptyKV == [k \in {} |-> <<>>]

NoBucket == [exists |-> FALSE, kv |-> EmptyKV]

\* kvdb.RwBucket.Put: an upsert of one key.
BucketPut(kv, k, v) ==
    [x \in DOMAIN kv \cup {k} |-> IF x = k THEN v ELSE kv[x]]

\* makeLogKey: the height as 8 big-endian bytes.
makeLogKey(updateNum) == IntToU64(updateNum)

\* An HTLC loop that does not skip dust HTLCs.
RECURSIVE PutEntriesLoopKeepDust(_, _)
PutEntriesLoopKeepDust(htlcs, entries) ==
    IF htlcs = <<>> THEN [err |-> "nil", entries |-> entries]
    ELSE IF Head(htlcs).OutputIndex > MaxUint16
    THEN [err |-> "ErrOutputIndexTooBig", entries |-> <<>>]
    ELSE PutEntriesLoopKeepDust(
             Tail(htlcs), Append(entries, NewHTLCEntryFromHTLC(Head(htlcs))))

\* The HTLC loop of putRevocationLog: dust HTLCs (negative output index) are
\* skipped, an output index over math.MaxUint16 fails the call.
RECURSIVE PutEntriesLoop(_, _)
PutEntriesLoop(htlcs, entries) ==
    IF htlcs = <<>> THEN [err |-> "nil", entries |-> entries]
    ELSE IF Head(htlcs).OutputIndex < 0
    THEN PutEntriesLoop(Tail(htlcs), entries)
    ELSE IF Head(htlcs).OutputIndex > MaxUint16
    THEN [err |-> "ErrOutputIndexTooBig", entries |-> <<>>]
    ELSE PutEntriesLoop(Tail(htlcs),
                        Append(entries, NewHTLCEntryFromHTLC(Head(htlcs))))

\* The RevocationLog putRevocationLog builds from its arguments.
PutLog(commit, ourOutputIndex, theirOutputIndex, noAmtData, entries) ==
    [OurOutputIndex |-> ourOutputIndex % 65536,
     TheirOutputIndex |-> theirOutputIndex % 65536,
     CommitTxHash |-> commit.CommitTxHash,
     HTLCEntries |-> entries,
     OurBalance |->
         IF noAmtData THEN <<>> ELSE <<IntToU64(commit.LocalBalance)>>,
     TheirBalance |->
         IF noAmtData THEN <<>> ELSE <<IntToU64(commit.RemoteBalance)>>]

\* A putRevocationLog that writes the header of the record before it looks
\* at the HTLCs.
putRevocationLogWriteFirst(kv, commit, our, their, noAmtData) ==
    IF our > MaxUint16 \/ their > MaxUint16
    THEN [err |-> "ErrOutputIndexTooBig", kv |-> kv]
    ELSE LET e == PutEntriesLoop(commit.Htlcs, <<>>) IN
         [err |-> e.err,
          kv |-> BucketPut(kv, makeLogKey(commit.CommitHeight),
                     serializeRevocationLog(
                         PutLog(commit, our, their, noAmtData, e.entries)))]

\* A putRevocationLog that writes the record into an emptied bucket.
putRevocationLogAlone(kv, commit, our, their, noAmtData) ==
    IF our > MaxUint16 \/ their > MaxUint16
    THEN [err |-> "ErrOutputIndexTooBig", kv |-> kv]
    ELSE LET e == PutEntriesLoop(commit.Htlcs, <<>>) IN
         IF e.err # "nil" THEN [err |-> e.err, kv |-> kv]
         ELSE [err |-> "nil",
               kv |-> BucketPut(EmptyKV, makeLogKey(commit.CommitHeight),
                          serializeRevocationLog(
                              PutLog(commit, our, their, noAmtData,
                                     e.entries)))]

\* A putRevocationLog that does not check ourOutputIndex.
putRevocationLogNoOurCheck(kv, commit, our, their, noAmtData) ==
    IF their > MaxUint16
    THEN [err |-> "ErrOutputIndexTooBig", kv |-> kv]
    ELSE LET e == PutEntriesLoop(commit.Htlcs, <<>>) IN
         IF e.err # "nil" THEN [err |-> e.err, kv |-> kv]
         ELSE [err |-> "nil",
               kv |-> BucketPut(kv, makeLogKey(commit.CommitHeight),
                          serializeRevocationLog(
                              PutLog(commit, our, their, noAmtData,
                                     e.entries)))]

\* putRevocationLog(bucket, commit, ourOutputIndex, theirOutputIndex,
\* noAmtData): the error returned and the contents of the bucket after it.
putRevocationLog(kv, commit, ourOutputIndex, theirOutputIndex, noAmtData) ==
    IF ourOutputIndex > MaxUint16
    THEN [err |-> "ErrOutputIndexTooBig", kv |-> kv]
    ELSE IF theirOutputIndex > MaxUint16
    THEN [err |-> "ErrOutputIndexTooBig", kv |-> kv]
    ELSE LET e == PutEntriesLoop(commit.Htlcs, <<>>) IN
         IF e.err # "nil" THEN [err |-> e.err, kv |-> kv]
         ELSE [err |-> "nil",
               kv |-> BucketPut(kv, makeLogKey(commit.CommitHeight),
                          serializeRevocationLog(
                              PutLog(commit, ourOutputIndex, theirOutputIndex,
                                     noAmtData, e.entries)))]

\* fetchRevocationLog
fetchRevocationLog(kv, updateNum) ==
    IF makeLogKey(updateNum) \notin DOMAIN kv
    THEN [err |-> "ErrLogEntryNotFound", rl |-> EmptyRevocationLog]
    ELSE deserializeRevocationLog(kv[makeLogKey(updateNum)])

\* deserializeChanCommit: a legacy value either decodes to the commitment it
\* holds or fails to decode.
deserializeChanCommit(v) ==
    IF v.valid THEN [err |-> "nil", c |-> <<v.commit>>]
    ELSE [err |-> "ErrLegacyDecode", c |-> <<>>]

\* fetchOldRevocationLog
fetchOldRevocationLog(kv, updateNum) ==
    IF makeLogKey(updateNum) \notin DOMAIN kv
    THEN [err |-> "ErrLogEntryNotFound", c |-> <<>>]
    ELSE deserializeChanCommit(kv[makeLogKey(updateNum)])

FetchResult(rl, c, err) == [rl |-> rl, c |-> c, err |-> err]

\* A second half that reports ErrNoPastDeltas whenever the old bucket is
\* missing.
FetchOldPartNoDeltas(chanBucket, updateNum) ==
    IF chanBucket.old.exists
    THEN LET o == fetchOldRevocationLog(chanBucket.old.kv, updateNum) IN
         IF o.err # "nil" THEN FetchResult(<<>>, <<>>, o.err)
         ELSE FetchResult(<<>>, o.c, "nil")
    ELSE FetchResult(<<>>, <<>>, "ErrNoPastDeltas")

\* The second half of fetchRevocationLogCompatible: the old bucket, then
\* the two not found errors.
FetchOldPart(chanBucket, updateNum) ==
    IF chanBucket.old.exists
    THEN LET o == fetchOldRevocationLog(chanBucket.old.kv, updateNum) IN
         IF o.err # "nil" THEN FetchResult(<<>>, <<>>, o.err)
         ELSE FetchResult(<<>>, o.c, "nil")
    ELSE IF ~chanBucket.cur.exists
    THEN FetchResult(<<>>, <<>>, "ErrNoPastDeltas")
    ELSE FetchResult(<<>>, <<>>, "ErrLogEntryNotFound")

\* A first half that looks into the old bucket after any error of the new
\* one.
FetchNewPartFallback(n, chanBucket, updateNum) ==
    IF n.err = "nil" THEN FetchResult(<<n.rl>>, <<>>, "nil")
    ELSE FetchOldPart(chanBucket, updateNum)

\* The first half of fetchRevocationLogCompatible, n what fetchRevocationLog
\* returned for the new bucket: only ErrLogEntryNotFound leads to the old
\* bucket.
FetchNewPart(n, chanBucket, updateNum) ==
    IF n.err = "nil" THEN FetchResult(<<n.rl>>, <<>>, "nil")
    ELSE IF n.err # "ErrLogEntryNotFound"
    THEN FetchResult(<<>>, <<>>, n.err)
    ELSE FetchOldPart(chanBucket, updateNum)

\* A fetch that looks into the old bucket first.
fetchRevocationLogCompatibleOldFirst(chanBucket, updateNum) ==
    IF chanBucket.old.exists
       /\ fetchOldRevocationLog(chanBucket.old.kv, updateNum).err = "nil"
    THEN FetchResult(<<>>,
                     fetchOldRevocationLog(chanBucket.old.kv, updateNum).c,
                     "nil")
    ELSE IF chanBucket.cur.exists
    THEN LET n == fetchRevocationLog(chanBucket.cur.kv, updateNum) IN
         IF n.err = "nil" THEN FetchResult(<<n.rl>>, <<>>, "nil")
         ELSE IF n.err # "ErrLogEntryNotFound"
         THEN FetchResult(<<>>, <<>>, n.err)
         ELSE FetchOldPart(chanBucket, updateNum)
    ELSE FetchOldPart(chanBucket, updateNum)

\* fetchRevocationLogCompatible: (RevocationLog, ChannelCommitment, error),
\* a nil pointer is <<>>.
fetchRevocationLogCompatible(chanBucket, updateNum) ==
    IF chanBucket.cur.exists
    THEN FetchNewPart(fetchRevocationLog(chanBucket.cur.kv, updateNum),
                      chanBucket, updateNum)
    ELSE FetchOldPart(chanBucket, updateNum)

\* fetchLogBucket: which bucket is returned, or ErrNoPastDeltas.
fetchLogBucket(chanBucket) ==
    IF chanBucket.cur.exists THEN [err |-> "nil", bucket |-> "cur"]
    ELSE IF chanBucket.old.exists THEN [err |-> "nil", bucket |-> "old"]
    ELSE [err |-> "ErrNoPastDeltas", bucket |-> "none"]

\* A deletion that leaves the old bucket.
deleteLogBucketCurOnly(chanBucket) ==
    [err |-> "nil",
     chan |-> [cur |-> IF chanBucket.cur.exists THEN NoBucket
                       ELSE chanBucket.cur,
               old |-> chanBucket.old]]

\* deleteLogBucket: both nested buckets are deleted when they exist.
deleteLogBucket(chanBucket) ==
    [err |-> "nil",
     chan |-> [cur |-> IF chanBucket.cur.exists THEN NoBucket
                       ELSE chanBucket.cur,
               old |-> IF chanBucket.old.exists THEN NoBucket
                       ELSE chanBucket.old]]

\* ------------------------------------------------------------------------
\* The state.

VARIABLES
    chan,   \* the channel bucket: [cur, old], the two nested log buckets
    ret,    \* what the last storage operation returned
    inp,    \* the input of a codec run
    buf,    \* the bytes of a codec run
    out,    \* what the codec returned
    pc      \* the position of a codec run

vars == <<chan, ret, inp, buf, out, pc>>

storeVars == <<chan, ret>>

codecVars == <<inp, buf, out, pc>>

Heights == 1..MaxHeight

\* ------------------------------------------------------------------------
\* The inputs.

HashA == [i \in 1..HashSize |-> i]

TxHashA == [i \in 1..HashSize |-> 100 + i]

\* The HTLCs of a commitment: a dust HTLC, two HTLCs with an output, and
\* one whose output index does not fit 16 bits.  Amounts are in
\* millisatoshi.
DustHtlc ==
    [RHash |-> HashA, RefundTimeout |-> IntToU32(500000), OutputIndex |-> -1,
     Incoming |-> FALSE, Amt |-> 100]

HtlcA ==
    [RHash |-> HashA, RefundTimeout |-> IntToU32(144),
     OutputIndex |-> MaxUint16, Incoming |-> TRUE, Amt |-> 253000]

HtlcB ==
    [RHash |-> ZeroHash, RefundTimeout |-> IntToU32(70000),
     OutputIndex |-> 0, Incoming |-> FALSE, Amt |-> 999]

BigHtlc ==
    [RHash |-> HashA, RefundTimeout |-> IntToU32(144),
     OutputIndex |-> MaxUint16 + 1, Incoming |-> TRUE, Amt |-> 5000]

Commit(h, htlcs) ==
    [CommitHeight |-> h, CommitTxHash |-> TxHashA, LocalBalance |-> 0,
     RemoteBalance |-> 253000, Htlcs |-> htlcs]

PutInput(commit, our, their, noAmtData) ==
    [commit |-> commit, our |-> our, their |-> their,
     noAmtData |-> noAmtData]

\* The calls of putRevocationLog of the storage specification.
StorePuts ==
    UNION {{PutInput(Commit(h, <<>>), 0, 1, FALSE),
            PutInput(Commit(h, <<DustHtlc, HtlcA>>), MaxUint16, 0, TRUE),
            PutInput(Commit(h, <<HtlcB>>), MaxUint16 + 1, 0, FALSE)}
           : h \in Heights}

\* The legacy area as it may be found: absent, or with, at every height, no
\* value, a value that decodes or a value that does not.
LegacyValue(h, how) == [valid |-> (how = "valid"), commit |-> Commit(h, <<>>)]

LegacyBuckets ==
    {NoBucket} \cup
    {[exists |-> TRUE,
      kv |-> [k \in {makeLogKey(h) : h \in {x \in Heights : g[x] # "absent"}}
                |-> LET h == CHOOSE x \in Heights : makeLogKey(x) = k
                    IN  LegacyValue(h, g[h])]]
     : g \in [Heights -> {"absent", "valid", "corrupt"}]}

\* ------------------------------------------------------------------------
\* The storage operations.

Ret(op, h, r) ==
    [op |-> op, h |-> h, err |-> r.err, rl |-> r.rl, c |-> r.c,
     prev |-> ret.op]

Plain(err) == FetchResult(<<>>, <<>>, err)

Init ==
    /\ chan \in {[cur |-> NoBucket, old |-> o] : o \in LegacyBuckets}
    /\ ret = [op |-> "none", h |-> 0, err |-> "nil", rl |-> <<>>,
              c |-> <<>>, prev |-> "none"]
    /\ inp = <<>>
    /\ buf = <<>>
    /\ out = <<>>
    /\ pc = "store"

\* The caller of putRevocationLog creates the current bucket on the first
\* write (CreateBucketIfNotExists).
CreateLogBucket ==
    /\ ~chan.cur.exists
    /\ chan' = [chan EXCEPT !.cur = [exists |-> TRUE, kv |-> EmptyKV]]
    /\ ret' = Ret("create", 0, Plain("nil"))
    /\ UNCHANGED codecVars

PutRevocationLog(i) ==
    /\ chan.cur.exists
    /\ LET r == putRevocationLog(chan.cur.kv, i.commit, i.our, i.their,
                                 i.noAmtData)
       IN  /\ chan' = [chan EXCEPT !.cur.kv = r.kv]
           /\ ret' = Ret("put", i.commit.CommitHeight, Plain(r.err))
    /\ UNCHANGED codecVars

FetchRevocationLogCompatible(h) ==
    /\ ret' = Ret("fetch", h, fetchRevocationLogCompatible(chan, h))
    /\ UNCHANGED <<chan, inp, buf, out, pc>>

FetchLogBucket ==
    /\ ret' = Ret(fetchLogBucket(chan).bucket, 0,
                  Plain(fetchLogBucket(chan).err))
    /\ UNCHANGED <<chan, inp, buf, out, pc>>

DeleteLogBucket ==
    /\ chan' = deleteLogBucket(chan).chan
    /\ ret' = Ret("delete", 0, Plain(deleteLogBucket(chan).err))
    /\ UNCHANGED codecVars

Next ==
    \/ CreateLogBucket
    \/ \E i \in StorePuts : PutRevocationLog(i)
    \/ \E h \in Heights : FetchRevocationLogCompatible(h)
    \/ FetchLogBucket
    \/ DeleteLogBucket

Spec == Init /\ [][Next]_vars

\* ------------------------------------------------------------------------
\* The codec on its own: a RevocationLog is serialized, the bytes are
\* deserialized as they are or after the value was cut short.

BoundedSeq(S, n) == UNION {[1..k -> S] : k \in 0..n}

\* 2^32, an amount that needs the 9 byte varint.
Amt4294967296 == <<0, 0, 0, 1, 0, 0, 0, 0>>

EntryZ ==
    [RHash |-> ZeroHash, RefundTimeout |-> IntToU32(0), OutputIndex |-> 0,
     Incoming |-> FALSE, Amt |-> IntToU64(0)]

EntryA ==
    [RHash |-> HashA, RefundTimeout |-> IntToU32(500000),
     OutputIndex |-> MaxUint16, Incoming |-> TRUE, Amt |-> IntToU64(253)]

EntryB ==
    [RHash |-> HashA, RefundTimeout |-> IntToU32(144), OutputIndex |-> 1,
     Incoming |-> FALSE, Amt |-> Amt4294967296]

RevLogs ==
    {[OurOutputIndex |-> MaxUint16, TheirOutputIndex |-> 1,
      CommitTxHash |-> TxHashA, HTLCEntries |-> hs, OurBalance |-> ob,
      TheirBalance |-> tb]
     : hs \in BoundedSeq({EntryZ, EntryA, EntryB}, MaxHtlcs),
       ob \in {<<>>, <<IntToU64(0)>>, <<Amt4294967296>>},
       tb \in {<<>>, <<IntToU64(0)>>}}

NoRet ==
    [op |-> "none", h |-> 0, err |-> "nil", rl |-> <<>>, c |-> <<>>,
     prev |-> "none"]

InitCodec ==
    /\ chan = [cur |-> NoBucket, old |-> NoBucket]
    /\ ret = NoRet
    /\ inp \in RevLogs
    /\ buf = <<>>
    /\ out = <<>>
    /\ pc = "start"

Serialize ==
    /\ pc = "start"
    /\ buf' = serializeRevocationLog(inp)
    /\ pc' = "encoded"
    /\ UNCHANGED <<chan, ret, inp, out>>

\* The stored value is cut short after its first k bytes.
Truncate(k) ==
    /\ pc = "encoded"
    /\ buf' = Take(buf, k)
    /\ pc' = "cut"
    /\ UNCHANGED <<chan, ret, inp, out>>

Deserialize ==
    /\ pc \in {"encoded", "cut"}
    /\ out' = deserializeRevocationLog(buf)
    /\ pc' = IF pc = "encoded" THEN "decoded" ELSE "cutdecoded"
    /\ UNCHANGED <<chan, ret, inp, buf>>

NextCodec ==
    \/ Serialize
    \/ \E k \in 0..(Len(buf) - 1) : Truncate(k)
    \/ Deserialize

SpecCodec == InitCodec /\ [][NextCodec]_vars

\* ------------------------------------------------------------------------
\* One HTLCEntry on its own: the entry is framed by writeTlvStream; the
\* frame is read back by readTlvStream as it is, after it was cut short, or
\* after the declared length of its payment hash field was overwritten.

\* Amounts at the edges of the four varint sizes, each with the column of
\* the size table it belongs to.
AmtCases ==
    { [amt |-> IntToU64(0), col |-> 1],
      [amt |-> IntToU64(252), col |-> 1],
      [amt |-> IntToU64(253), col |-> 2],
      [amt |-> IntToU64(65535), col |-> 2],
      [amt |-> IntToU64(65536), col |-> 3],
      [amt |-> <<0, 0, 0, 0, 255, 255, 255, 255>>, col |-> 3],
      [amt |-> Amt4294967296, col |-> 4],
      [amt |-> Rep(255, 8), col |-> 4] }

Entries ==
    {[RHash |-> h, RefundTimeout |-> IntToU32(500000), OutputIndex |-> 2,
      Incoming |-> TRUE, Amt |-> a.amt]
     : h \in {ZeroHash, HashA}, a \in AmtCases}

\* The declared lengths written over the length of the payment hash field.
HashLengths == {0, 1, 31, 32, 33}

\* The place of the declared length of the payment hash field in a frame:
\* after the length of the frame and the type of the field.
HashLenAt ==
    Len(WriteVarInt(IntToU64(0))) + Len(WriteVarInt(IntToU64(RHashType))) + 1

InitEntry ==
    /\ chan = [cur |-> NoBucket, old |-> NoBucket]
    /\ ret = NoRet
    /\ inp \in Entries
    /\ buf = <<>>
    /\ out = <<>>
    /\ pc = "entry"

WriteEntry ==
    /\ pc = "entry"
    /\ buf' = writeTlvStream(toTlvStream, EntryVals(inp))
    /\ pc' = "framed"
    /\ UNCHANGED <<chan, ret, inp, out>>

\* The frame loses everything after its first k bytes; its declared
\* length stays.
CutFrame(k) ==
    /\ pc = "framed"
    /\ buf' = Take(buf, k)
    /\ pc' = "cutframe"
    /\ UNCHANGED <<chan, ret, inp, out>>

\* The declared length of the payment hash field becomes l.
SetHashLength(l) ==
    /\ pc = "framed"
    /\ buf' = [buf EXCEPT ![HashLenAt] = l]
    /\ pc' = "hashlen"
    /\ UNCHANGED <<chan, ret, inp, out>>

ReadEntry ==
    /\ pc \in {"framed", "cutframe", "hashlen"}
    /\ out' = readTlvStream(buf, toTlvStream)
    /\ pc' = CASE pc = "framed" -> "read"
               [] pc = "cutframe" -> "cutread"
               [] OTHER -> "hashread"
    /\ UNCHANGED <<chan, ret, inp, buf>>

NextEntry ==
    \/ WriteEntry
    \/ \E k \in 1..(Len(buf) - 1) : CutFrame(k)
    \/ \E l \in HashLengths : SetHashLength(l)
    \/ ReadEntry

SpecEntry == InitEntry /\ [][NextEntry]_vars

\* ------------------------------------------------------------------------
\* One call of putRevocationLog on a bucket, then a fetch of the height of
\* the call.

PutCalls ==
    {PutInput(Commit(h, hs), ix[1], ix[2], na)
     : h \in Heights,
       hs \in BoundedSeq({DustHtlc, HtlcA, HtlcB, BigHtlc}, MaxHtlcs),
       ix \in {<<0, 1>>, <<MaxUint16, MaxUint16>>, <<MaxUint16 + 1, 0>>,
               <<0, MaxUint16 + 1>>},
       na \in BOOLEAN}

\* The bucket before the call: empty, or with a record at height 1.
PutBuckets ==
    {EmptyKV, BucketPut(EmptyKV, makeLogKey(1),
                        serializeRevocationLog(EmptyRevocationLog))}

InitPut ==
    /\ chan \in {[cur |-> [exists |-> TRUE, kv |-> kv], old |-> NoBucket]
                 : kv \in PutBuckets}
    /\ ret = NoRet
    /\ inp \in PutCalls
    /\ buf = <<>>
    /\ out = <<>>
    /\ pc = "call"

CallPut ==
    /\ pc = "call"
    /\ LET r == putRevocationLog(chan.cur.kv, inp.commit, inp.our, inp.their,
                                 inp.noAmtData)
       IN  /\ chan' = [chan EXCEPT !.cur.kv = r.kv]
           /\ ret' = Ret("put", inp.commit.CommitHeight, Plain(r.err))
    /\ pc' = "put"
    /\ UNCHANGED <<inp, buf, out>>

FetchPut ==
    /\ pc = "put"
    /\ LET f == fetchRevocationLog(chan.cur.kv, inp.commit.CommitHeight)
       IN  ret' = Ret("fetch", inp.commit.CommitHeight,
                      FetchResult(<<f.rl>>, <<>>, f.err))
    /\ pc' = "fetched"
    /\ UNCHANGED <<chan, inp, buf, out>>

NextPut ==
    \/ CallPut
    \/ FetchPut

SpecPut == InitPut /\ [][NextPut]_vars

\* ------------------------------------------------------------------------
\* Fetches from buckets as they may be found on disk: at every height the
\* new bucket holds no value, a record, or a value that does not decode.

\* Values deserializeRevocationLog rejects: no byte at all, a length that is
\* not a canonical varint, and a header whose first field declares no bytes.
CorruptValues == {<<>>, <<253, 0, 1>>, <<2, revLogOurOutputIndexType, 0>>}

StoredValues ==
    CorruptValues \cup {serializeRevocationLog(EmptyRevocationLog)}

CurBuckets ==
    {NoBucket} \cup
    {[exists |-> TRUE,
      kv |-> [k \in {makeLogKey(h)
                      : h \in {x \in Heights : g[x] # <<"absent">>}}
                |-> LET h == CHOOSE x \in Heights : makeLogKey(x) = k
                    IN  g[h]]]
     : g \in [Heights -> StoredValues \cup {<<"absent">>}]}

InitFetch ==
    /\ chan \in {[cur |-> n, old |-> o]
                 : n \in CurBuckets, o \in LegacyBuckets}
    /\ ret = NoRet
    /\ inp = <<>>
    /\ buf = <<>>
    /\ out = <<>>
    /\ pc = "fetch"

NextFetch ==
    \/ \E h \in Heights : FetchRevocationLogCompatible(h)
    \/ FetchLogBucket

SpecFetch == InitFetch /\ [][NextFetch]_vars

\* ------------------------------------------------------------------------
\* The properties.

\* C1 (SpecCodec): round trip.  Deserializing the bytes that
\* serializeRevocationLog wrote for a RevocationLog succeeds and gives back
\* that RevocationLog, its HTLC entries in the same order and number.
C1_RoundTrip ==
    pc = "decoded" =>
        /\ out.err = "nil"
        /\ out.rl = inp
        /\ Len(out.rl.HTLCEntries) = Len(inp.HTLCEntries)

C1_Witness ==
    /\ pc = "decoded"
    /\ Len(inp.HTLCEntries) >= 2
    /\ inp.HTLCEntries[1].RHash = ZeroHash
    /\ inp.HTLCEntries[2].RHash # ZeroHash
    /\ inp.OurBalance # <<>>
    /\ inp.TheirBalance = <<>>
    /\ out.rl.HTLCEntries = inp.HTLCEntries

HasRecord(bucket, h) == bucket.exists /\ makeLogKey(h) \in DOMAIN bucket.kv

\* C2 (Spec): dual bucket fallback.  A fetch of a height that has a record
\* that decodes in the legacy area and none in the current area returns the
\* commitment of the legacy record and no RevocationLog; a fetch of a height
\* that has a record in the current area returns that RevocationLog and no
\* commitment, whatever the legacy area holds.
C2_DualBucketFallback ==
    ret.op = "fetch" =>
        /\ (/\ ~HasRecord(chan.cur, ret.h)
            /\ HasRecord(chan.old, ret.h)
            /\ chan.old.kv[makeLogKey(ret.h)].valid)
           => /\ ret.err = "nil"
              /\ ret.rl = <<>>
              /\ ret.c = <<chan.old.kv[makeLogKey(ret.h)].commit>>
        /\ HasRecord(chan.cur, ret.h)
           => /\ ret.err = "nil"
              /\ ret.c = <<>>
              /\ Len(ret.rl) = 1
              /\ serializeRevocationLog(ret.rl[1])
                     = chan.cur.kv[makeLogKey(ret.h)]

C2_Witness ==
    /\ ret.op = "fetch"
    /\ ret.prev = "put"
    /\ HasRecord(chan.cur, ret.h)
    /\ HasRecord(chan.old, ret.h)
    /\ chan.old.kv[makeLogKey(ret.h)].valid
    /\ ret.rl # <<>>
    /\ ret.c = <<>>

\* C3 (Spec): not found distinction.  A fetch fails with ErrNoPastDeltas
\* exactly when neither bucket exists, and with ErrLogEntryNotFound exactly
\* when a bucket exists and no existing bucket has a record at the height.
C3_NotFoundDistinction ==
    ret.op = "fetch" =>
        /\ ret.err = "ErrNoPastDeltas"
               <=> (~chan.cur.exists /\ ~chan.old.exists)
        /\ ret.err = "ErrLogEntryNotFound"
               <=> /\ chan.cur.exists \/ chan.old.exists
                   /\ ~HasRecord(chan.cur, ret.h)
                   /\ ~HasRecord(chan.old, ret.h)

C3_Witness ==
    /\ ret.op = "fetch"
    /\ ret.err = "ErrLogEntryNotFound"
    /\ chan.cur.exists
    /\ DOMAIN chan.cur.kv # {}
    /\ chan.old.exists

TooBig(i) ==
    \/ i.our > MaxUint16
    \/ i.their > MaxUint16
    \/ \E n \in 1..Len(i.commit.Htlcs) :
          i.commit.Htlcs[n].OutputIndex > MaxUint16

\* C4 (SpecPut): index bound.  putRevocationLog fails with
\* ErrOutputIndexTooBig exactly when ourOutputIndex, theirOutputIndex or the
\* output index of an HTLC is over 65535; when it succeeds, the record
\* fetched at that height holds the output indexes as they were passed,
\* 65535 included.
C4_IndexBound ==
    /\ pc = "put" =>
          /\ TooBig(inp) <=> ret.err = "ErrOutputIndexTooBig"
          /\ ~TooBig(inp) => ret.err = "nil"
    /\ (pc = "fetched" /\ ~TooBig(inp)) =>
          /\ ret.err = "nil"
          /\ ret.rl[1].OurOutputIndex = inp.our
          /\ ret.rl[1].TheirOutputIndex = inp.their
          /\ \A n \in 1..Len(ret.rl[1].HTLCEntries) :
                \E m \in 1..Len(inp.commit.Htlcs) :
                    ret.rl[1].HTLCEntries[n].OutputIndex
                        = inp.commit.Htlcs[m].OutputIndex

C4_Witness ==
    /\ pc = "fetched"
    /\ inp.our = MaxUint16
    /\ ret.err = "nil"
    /\ ret.rl[1].OurOutputIndex = MaxUint16
    /\ Len(ret.rl[1].HTLCEntries) >= 1
    /\ ret.rl[1].HTLCEntries[1].OutputIndex = MaxUint16

\* C5 (SpecCodec): balance optionality.  The header written for a log
\* holds the type 3 exactly when OurBalance is set and the type 4 exactly
\* when TheirBalance is set; each balance decodes to not set when it was
\* not set and to its value, zero included, when it was set.
C5_BalanceOptionality ==
    /\ pc = "encoded" =>
          readTlvStream(buf, HeaderRecords).parsed
              = {revLogOurOutputIndexType, revLogTheirOutputIndexType,
                 revLogCommitTxHashType}
                \cup (IF inp.OurBalance # <<>> THEN {revLogOurBalanceType}
                      ELSE {})
                \cup (IF inp.TheirBalance # <<>>
                      THEN {revLogTheirBalanceType} ELSE {})
    /\ pc = "decoded" =>
          /\ out.rl.OurBalance = inp.OurBalance
          /\ out.rl.TheirBalance = inp.TheirBalance

C5_Witness ==
    /\ pc = "decoded"
    /\ inp.OurBalance = <<IntToU64(0)>>
    /\ inp.TheirBalance = <<>>
    /\ out.rl.OurBalance = <<IntToU64(0)>>
    /\ out.rl.TheirBalance = <<>>

\* C6 (Spec): deletion idempotence.  deleteLogBucket returns no error and
\* leaves neither bucket; deleting again changes nothing and returns no
\* error; every fetch then fails with ErrNoPastDeltas.
C6_DeletionIdempotence ==
    /\ ret.op = "delete" =>
          /\ ret.err = "nil"
          /\ chan = [cur |-> NoBucket, old |-> NoBucket]
          /\ deleteLogBucket(chan) = [err |-> "nil", chan |-> chan]
          /\ \A h \in Heights :
                fetchRevocationLogCompatible(chan, h).err = "ErrNoPastDeltas"
    /\ (ret.op = "fetch" /\ ret.prev = "delete") =>
          ret.err = "ErrNoPastDeltas"

C6_Witness ==
    /\ ret.op = "delete"
    /\ ret.prev = "delete"
    /\ ret.err = "nil"
    /\ ~chan.old.exists

\* C7 (SpecEntry): sparse hash decode.  Reading a frame whose payment hash
\* field declares the length its encoder wrote (0 for the empty hash, 32
\* otherwise) gives the hash back; reading a frame whose payment hash field
\* declares any length other than 0 and 32 fails.
C7_SparseHashDecode ==
    pc = "hashread" =>
        IF buf[HashLenAt] = hashLen(inp.RHash)
        THEN out.err = "nil" /\ out.vals[RHashType] = inp.RHash
        ELSE buf[HashLenAt] \notin {0, HashSize} => out.err # "nil"

\* C8 (SpecEntry): truncated frame.  Reading a frame that declares more
\* bytes than are left fails with io.ErrUnexpectedEOF wherever the frame
\* was cut.
C8_TruncatedFrame == pc = "cutread" => out.err = "ErrUnexpectedEOF"

\* The value holds the header and the first n entries of the log, whole.
WholePrefix(rl, b) ==
    \E n \in 0..Len(rl.HTLCEntries) :
        b = serializeRevocationLog(
                [rl EXCEPT !.HTLCEntries = SubSeq(rl.HTLCEntries, 1, n)])

\* C9 (SpecCodec): no partial decode.  Deserializing a value that was cut
\* inside its header or inside one of its entries returns an error.
C9_NoPartialDecode ==
    (pc = "cutdecoded" /\ ~WholePrefix(inp, buf)) => out.err # "nil"

ColOf(amt) == (CHOOSE a \in AmtCases : a.amt = amt).col

\* The size table of the HTLCEntry comment.
CommentSize(h) ==
    IF h.RHash = ZeroHash THEN <<19, 21, 23, 26>>[ColOf(h.Amt)]
    ELSE <<51, 53, 55, 58>>[ColOf(h.Amt)]

\* The size table with the last column one byte larger.
EncodedSize(h) ==
    IF h.RHash = ZeroHash THEN <<19, 21, 23, 27>>[ColOf(h.Amt)]
    ELSE <<51, 53, 55, 59>>[ColOf(h.Amt)]

C11_ErrorSurfacing ==
    ret.op = "fetch" =>
        /\ (/\ HasRecord(chan.cur, ret.h)
            /\ chan.cur.kv[makeLogKey(ret.h)] \in CorruptValues)
           => /\ ret.err \notin {"nil", "ErrLogEntryNotFound",
                                 "ErrNoPastDeltas"}
              /\ ret.err
                   = deserializeRevocationLog(
                         chan.cur.kv[makeLogKey(ret.h)]).err
              /\ ret.rl = <<>>
              /\ ret.c = <<>>
        /\ (/\ ~HasRecord(chan.cur, ret.h)
            /\ HasRecord(chan.old, ret.h)
            /\ ~chan.old.kv[makeLogKey(ret.h)].valid)
           => /\ ret.err = "ErrLegacyDecode"
              /\ ret.rl = <<>>
              /\ ret.c = <<>>
        /\ (/\ ~HasRecord(chan.cur, ret.h)
            /\ chan.old.exists
            /\ ~HasRecord(chan.old, ret.h))
           => /\ ret.err = "ErrLogEntryNotFound"
              /\ ret.rl = <<>>
              /\ ret.c = <<>>

C11_Witness ==
    /\ ret.op = "fetch"
    /\ HasRecord(chan.cur, ret.h)
    /\ chan.cur.kv[makeLogKey(ret.h)] = <<2, revLogOurOutputIndexType, 0>>
    /\ HasRecord(chan.old, ret.h)
    /\ chan.old.kv[makeLogKey(ret.h)].valid
    /\ ret.err = "ErrTypeForDecoding"
    /\ ret.c = <<>>

\* C12 (Spec): reads have no effect.  A fetch and fetchLogBucket leave both
\* buckets as they were, whatever they return, a commitment of the old
\* bucket included; putRevocationLog leaves the old bucket as it was and,
\* in the new bucket, every key other than the key of its commit height.
C12_ReadsEffectFree ==
    [][/\ ret'.op \in {"fetch", "cur", "old", "none"} => chan' = chan
       /\ ret'.op = "put" =>
             /\ chan'.old = chan.old
             /\ chan'.cur.exists = chan.cur.exists
             /\ DOMAIN chan'.cur.kv
                    \subseteq DOMAIN chan.cur.kv \cup {makeLogKey(ret'.h)}
             /\ \A k \in DOMAIN chan.cur.kv \ {makeLogKey(ret'.h)} :
                   /\ k \in DOMAIN chan'.cur.kv
                   /\ chan'.cur.kv[k] = chan.cur.kv[k]]_vars

C12_Witness ==
    /\ ret.op = "fetch"
    /\ ret.err = "nil"
    /\ ret.c # <<>>
    /\ chan.cur.exists
    /\ DOMAIN chan.cur.kv # {}
    /\ ~HasRecord(chan.cur, ret.h)

\* C13 (Spec): immutability.  A record of the new bucket stays as it was
\* written through every later operation other than the deletion of the
\* buckets.
C13_Immutability ==
    [][ret'.op # "delete" =>
          \A h \in Heights :
              HasRecord(chan.cur, h) =>
                  /\ HasRecord(chan'.cur, h)
                  /\ chan'.cur.kv[makeLogKey(h)] = chan.cur.kv[makeLogKey(h)]
      ]_vars

\* The HTLCs of a commitment that have an output, in their order.
NonDust(htlcs) == SelectSeq(htlcs, LAMBDA x : x.OutputIndex >= 0)

SameHtlc(entry, htlc) ==
    /\ entry.RHash = htlc.RHash
    /\ entry.RefundTimeout = htlc.RefundTimeout
    /\ entry.OutputIndex = htlc.OutputIndex
    /\ entry.Incoming = htlc.Incoming
    /\ entry.Amt = IntToU64(htlc.Amt \div 1000)

\* C14 (SpecPut): dust filtering.  The record fetched at the height of a
\* put that succeeded holds one entry for each HTLC of the commitment with
\* an output index of 0 or more, in the order of the commitment, and no
\* entry for an HTLC with a negative output index; a put whose indexes are
\* all at most 65535 succeeds whatever dust HTLCs the commitment has.
C14_DustFiltering ==
    /\ (pc = "fetched" /\ ~TooBig(inp)) =>
          /\ ret.err = "nil"
          /\ Len(ret.rl[1].HTLCEntries) = Len(NonDust(inp.commit.Htlcs))
          /\ \A n \in 1..Len(ret.rl[1].HTLCEntries) :
                SameHtlc(ret.rl[1].HTLCEntries[n],
                         NonDust(inp.commit.Htlcs)[n])
    /\ (pc = "put" /\ ret.err # "nil") =>
          \E n \in 0..Len(inp.commit.Htlcs) :
              IF n = 0 THEN inp.our > MaxUint16 \/ inp.their > MaxUint16
              ELSE inp.commit.Htlcs[n].OutputIndex > MaxUint16

C14_Witness ==
    /\ pc = "fetched"
    /\ inp.commit.Htlcs = <<DustHtlc, HtlcA>>
    /\ ret.err = "nil"
    /\ Len(ret.rl[1].HTLCEntries) = 1
    /\ ret.rl[1].HTLCEntries[1].OutputIndex = MaxUint16

\* C15 (SpecPut): nothing is written on error.  A call of putRevocationLog
\* that returns an error leaves the bucket as it was: no key is added and
\* the record the bucket had at the commit height stays.
C15_UnchangedOnError ==
    [][(pc = "call" /\ ret'.err # "nil") => chan' = chan]_vars

C15_Witness ==
    /\ pc = "put"
    /\ ret.err = "ErrOutputIndexTooBig"
    /\ inp.our <= MaxUint16
    /\ inp.their <= MaxUint16
    /\ inp.commit.Htlcs = <<HtlcA, BigHtlc>>
    /\ HasRecord(chan.cur, inp.commit.CommitHeight)
    /\ chan.cur.kv[makeLogKey(inp.commit.CommitHeight)]
           = serializeRevocationLog(EmptyRevocationLog)

====
